---- MODULE Spec2Model ----
(***************************************************************************)
(* QueryUP: the state-transition logic of the App component                *)
(* (src/unnamed/part_000).  The state is the object held by useState       *)
(* (users, queries, sessions, notifications) together with currentUserId,  *)
(* route and authMode; every handler of App is one action.  A handler runs *)
(* to completion inside one browser event, and React applies the updater   *)
(* functions it queued, in order, before the next event is dispatched, so  *)
(* each action is the composition of the updaters the handler queues.      *)
(*                                                                         *)
(* Identifiers come from id() (Math.random in base 36).  They are modelled *)
(* as values not yet in use: the next unused number of the collection; a   *)
(* repeated random identifier is not modelled.  Timestamps (createdAt,     *)
(* dateTime) are written by the handlers and read by none of them; they    *)
(* are left out, as are the texts (title, description, message) that no    *)
(* handler reads.  The default name of a user is the local part of the     *)
(* email; the local parts used here hold no dot.                           *)
(*                                                                         *)
(* The handlers are called in any order with any argument, as the props    *)
(* of App allow; the render conditions of the pages are not part of the    *)
(* handlers.  lastAlert is the alert the last handler call raised.         *)
(* rateSession raises no alert: lastRated is the session identifier it was *)
(* called with when it was the last handler called, and null otherwise.    *)
(* calls is the number of handler calls still explored from the current    *)
(* state: MaxSteps from the empty state, MaxStoredSteps from the stored    *)
(* snapshot.                                                               *)
(***************************************************************************)
EXTENDS Integers, Sequences, FiniteSets, TLC

VARIABLES users, queries, sessions, notifications,
          currentUserId, route, authMode, lastAlert,
          calls, lastRated, xpIn, levelOut, board

vars == <<users, queries, sessions, notifications,
          currentUserId, route, authMode, lastAlert,
          calls, lastRated, xpIn, levelOut, board>>

appVars == <<users, queries, sessions, notifications,
             currentUserId, route, authMode, lastAlert>>

levelVars == <<xpIn, levelOut>>

(* ---------------- bounds of the model ---------------- *)
MaxUsers == 3
MaxQueries == 2
MaxSteps == 6
MaxStoredSteps == 4
MaxXpIn == 1600
MaxBoardSessions == 1
MaxModeSteps == 4
MaxRatedSessions == 5
MaxStatSteps == 2

(* ---------------- values ---------------- *)
(* a nullable value is the empty tuple (null) or a one-element tuple *)
null == <<>>
Val(v) == <<v>>
Infinity == -1

MinRating == 1
MaxRating == 5
RatingChoices == {MinRating, MaxRating}

COLLEGE_DOMAIN == "pccoepune.org"
Locals == <<"asha", "ben", "chitra", "dev", "esha", "farid">>
Emails == {[local |-> Locals[i], domain |-> COLLEGE_DOMAIN] : i \in 1..MaxUsers}
            \cup {[local |-> Locals[1], domain |-> "gmail.com"]}
SignupPasswords == {"pw"}
LoginPasswords == {"pw", "bad"}

PreferredModes == {"Either", "Offline"}

ProfileUpdates == {[name |-> "N", year |-> Val("2nd Year"), branch |-> Val("IT"),
                    bio |-> "", strongSubjects |-> <<"DSA">>]}

(* ---------------- helpers on sequences ---------------- *)
Range(s) == {s[i] : i \in 1..Len(s)}

RECURSIVE SumSeq(_)
SumSeq(s) == IF s = <<>> THEN 0 ELSE Head(s) + SumSeq(Tail(s))

RECURSIVE GCD(_, _)
GCD(a, b) == IF b = 0 THEN a ELSE GCD(b, a % b)

(* the JavaScript number a / b for small non-negative integers, kept as a
   fraction in lowest terms: equal quotients are equal records *)
Quotient(a, b) == LET g == GCD(a, b) IN [num |-> a \div g, den |-> b \div g]
Zero == [num |-> 0, den |-> 1]

(* ---------------- JavaScript numbers ---------------- *)
(* The fraction above stands for the number the code stores: the IEEE 754
   double nearest to it.  A positive double is kept here as its 53
   significant bits, in two parts, with the exponent of the first bit: its
   value is (hi * LoUnit + lo) * 2^(e - 52), with HiUnit \div 2 <= hi < HiUnit
   and lo < LoUnit. *)
HiUnit == 2^26
LoUnit == 2^27

NumberZero == [hi |-> 0, lo |-> 0, e |-> 0]

(* the number of binary digits of the integer n *)
RECURSIVE BitLength(_)
BitLength(n) == IF n = 0 THEN 0 ELSE 1 + BitLength(n \div 2)

(* round to nearest, ties to even: hi and lo are the 53 leading bits of the
   exact result, half is its next bit and more says that non-zero bits
   follow that one *)
Round(hi, lo, e, half, more) ==
  LET up == half /\ (more \/ lo % 2 = 1)
      lo1 == IF up THEN lo + 1 ELSE lo
      hi1 == IF lo1 = LoUnit THEN hi + 1 ELSE hi
  IN IF hi1 = HiUnit
     THEN [hi |-> HiUnit \div 2, lo |-> 0, e |-> e + 1]
     ELSE [hi |-> hi1, lo |-> lo1 % LoUnit, e |-> e]

(* a / b on numbers, for integers a >= 0 and 1 <= b <= 15: the long
   division of a by b, 53 bits of it and the two that decide the rounding *)
RECURSIVE Divide(_, _)
Divide(a, b) ==
  IF a = 0 THEN NumberZero
  ELSE IF a < b
  THEN LET d == Divide(2 * a, b) IN [d EXCEPT !.e = d.e - 1]
  ELSE LET len == BitLength(a \div b)
           n == 2^(26 - len)
           r1 == ((a % b) * n) % b
           r2 == (r1 * LoUnit) % b
       IN Round((a \div b) * n + ((a % b) * n) \div b,
                (r1 * LoUnit) \div b,
                len - 1,
                (2 * r2) \div b = 1,
                (2 * r2) % b # 0)

(* ---------------- computeLevel ---------------- *)
XP_LEVELS == << [level |-> 1, min |-> 0, max |-> 99],
                [level |-> 2, min |-> 100, max |-> 299],
                [level |-> 3, min |-> 300, max |-> 699],
                [level |-> 4, min |-> 700, max |-> 1499],
                [level |-> 5, min |-> 1500, max |-> Infinity] >>

InLevel(xp, l) == xp >= l.min /\ (l.max = Infinity \/ xp <= l.max)

(* faulty variant: the lower bound of a level is tested with > instead of >= *)
computeLevel_strictMin(xp) ==
  LET hits == {i \in 1..Len(XP_LEVELS) :
                 /\ xp > XP_LEVELS[i].min
                 /\ (XP_LEVELS[i].max = Infinity \/ xp <= XP_LEVELS[i].max)}
  IN IF hits = {} THEN 1
     ELSE XP_LEVELS[CHOOSE i \in hits : \A j \in hits : i <= j].level

computeLevel(xp) ==
  LET hits == {i \in 1..Len(XP_LEVELS) : InLevel(xp, XP_LEVELS[i])}
  IN IF hits = {} THEN 1
     ELSE XP_LEVELS[CHOOSE i \in hits : \A j \in hits : i <= j].level

(* ---------------- lookups ---------------- *)
(* Array.prototype.find returns the first element that passes the test:
   First(I) is the least of the indices I that pass it *)
First(I) == CHOOSE i \in I : \A j \in I : i <= j

isAuthed == \E u \in Range(users) : Val(u.id) = currentUserId

currentUser ==
  users[First({i \in DOMAIN users : Val(users[i].id) = currentUserId})]

(* ---------------- updateUserStats ---------------- *)
sessionsAsMentor(ss, userId) ==
  SelectSeq(ss, LAMBDA s : /\ s.mentorId = userId
                           /\ s.status = "Completed"
                           /\ s.ratingForMentor # null)

StatsOf(ss, userId) ==
  LET mine == sessionsAsMentor(ss, userId)
      xp == SumSeq([i \in DOMAIN mine |-> mine[i].ratingForMentor[1] * 10])
      ratingSum == SumSeq([i \in DOMAIN mine |-> mine[i].ratingForMentor[1]])
      ratingCount == Len(mine)
      ratingAvg == IF ratingCount # 0 THEN Quotient(ratingSum, ratingCount)
                   ELSE Zero
  IN [xp |-> xp, ratingAvg |-> ratingAvg, ratingCount |-> ratingCount,
      level |-> computeLevel(xp)]

(* faulty variant: the recomputed xp is added to the stored xp *)
updateUserStats_accumulate(us, ss, userId) ==
  LET st == StatsOf(ss, userId)
  IN [i \in DOMAIN us |->
       IF us[i].id = userId
       THEN [us[i] EXCEPT !.xp = us[i].xp + st.xp,
                          !.ratingAvg = st.ratingAvg,
                          !.ratingCount = st.ratingCount,
                          !.level = computeLevel(us[i].xp + st.xp)]
       ELSE us[i]]

(* faulty variant: the statistics are written to every user *)
updateUserStats_allUsers(us, ss, userId) ==
  LET st == StatsOf(ss, userId)
  IN [i \in DOMAIN us |->
       [us[i] EXCEPT !.xp = st.xp, !.ratingAvg = st.ratingAvg,
                     !.ratingCount = st.ratingCount, !.level = st.level]]

(* faulty variant: the stored ratingCount is left as it was *)
updateUserStats_countKept(us, ss, userId) ==
  LET st == StatsOf(ss, userId)
  IN [i \in DOMAIN us |->
       IF us[i].id = userId
       THEN [us[i] EXCEPT !.xp = st.xp, !.ratingAvg = st.ratingAvg,
                          !.level = st.level]
       ELSE us[i]]

(* faulty variant: the level is computed from the xp stored before *)
updateUserStats_staleLevel(us, ss, userId) ==
  LET st == StatsOf(ss, userId)
  IN [i \in DOMAIN us |->
       IF us[i].id = userId
       THEN [us[i] EXCEPT !.xp = st.xp, !.ratingAvg = st.ratingAvg,
                          !.ratingCount = st.ratingCount,
                          !.level = computeLevel(us[i].xp)]
       ELSE us[i]]

updateUserStats(us, ss, userId) ==
  LET st == StatsOf(ss, userId)
  IN [i \in DOMAIN us |->
       IF us[i].id = userId
       THEN [us[i] EXCEPT !.xp = st.xp, !.ratingAvg = st.ratingAvg,
                          !.ratingCount = st.ratingCount, !.level = st.level]
       ELSE us[i]]

(* ---------------- initial state ---------------- *)
(* App starts from loadState(): the snapshot found in localStorage, or the
   empty collections when there is none.  currentUserId, route and authMode
   are not persisted and start from their useState defaults. *)
EmptyState ==
  [users |-> <<>>, queries |-> <<>>, sessions |-> <<>>, notifications |-> <<>>]

(* A snapshot left in localStorage by an earlier visit: asha signed up (the
   first account), posted two queries, ben signed up and accepted both.  It
   is the state the empty one reaches by handleSignup, createQuery,
   createQuery, handleSignup, acceptQuery(1), acceptQuery(2). *)
StoredUser(i, role) ==
  [id |-> i, email |-> [local |-> Locals[i], domain |-> COLLEGE_DOMAIN],
   password |-> "pw", name |-> Locals[i], year |-> null, branch |-> null,
   strongSubjects |-> <<>>, bio |-> "", role |-> role,
   xp |-> 0, level |-> 1, ratingAvg |-> Zero, ratingCount |-> 0,
   isBlocked |-> FALSE]

StoredQuery(i) ==
  [id |-> i, preferredMode |-> IF i = 1 THEN "Either" ELSE "Offline",
   status |-> "In Progress", askerId |-> 1]

StoredSession(i) ==
  [id |-> i, queryId |-> i, mentorId |-> 2, menteeId |-> 1,
   mode |-> IF i = 1 THEN "Online" ELSE "Offline",
   locationOrLink |-> IF i = 1 THEN "https://meet.google.com/example"
                      ELSE "PCCOE Library",
   status |-> "Confirmed", ratingForMentor |-> null, ratingForMentee |-> null]

StoredState ==
  [users |-> <<StoredUser(1, "admin"), StoredUser(2, "student")>>,
   queries |-> <<StoredQuery(2), StoredQuery(1)>>,
   sessions |-> <<StoredSession(1), StoredSession(2)>>,
   notifications |-> <<[id |-> 1, userId |-> 1, read |-> FALSE],
                       [id |-> 2, userId |-> 1, read |-> FALSE]>>]

InitFrom(initial, budget) ==
  /\ users = initial.users
  /\ queries = initial.queries
  /\ sessions = initial.sessions
  /\ notifications = initial.notifications
  /\ currentUserId = null
  /\ route = "landing"
  /\ authMode = "signup"
  /\ lastAlert = "none"
  /\ calls = budget
  /\ lastRated = null
  /\ levelOut = null
  /\ board = null

InitFresh == InitFrom(EmptyState, MaxSteps) /\ xpIn = 0

InitStored == InitFrom(StoredState, MaxStoredSteps) /\ xpIn = 0

Init == InitFresh \/ InitStored

(* ---------------- auth handlers ---------------- *)
(* faulty variant: the first account is a student like the others *)
newUser_alwaysStudent(email, password) ==
  [id |-> Len(users) + 1, email |-> email, password |-> password,
   name |-> email.local, year |-> null, branch |-> null,
   strongSubjects |-> <<>>, bio |-> "",
   role |-> "student",
   xp |-> 0, level |-> 1, ratingAvg |-> Zero, ratingCount |-> 0,
   isBlocked |-> FALSE]

newUser(email, password) ==
  [id |-> Len(users) + 1, email |-> email, password |-> password,
   name |-> email.local, year |-> null, branch |-> null,
   strongSubjects |-> <<>>, bio |-> "",
   role |-> IF Len(users) = 0 THEN "admin" ELSE "student",
   xp |-> 0, level |-> 1, ratingAvg |-> Zero, ratingCount |-> 0,
   isBlocked |-> FALSE]

(* faulty variant: only the first user is compared with the email *)
exists_firstOnly(email) == users # <<>> /\ users[1].email = email

exists(email) == \E u \in Range(users) : u.email = email

handleSignup(email, password) ==
  /\ IF email.domain # COLLEGE_DOMAIN
     THEN /\ lastAlert' = "domain"
          /\ UNCHANGED <<users, currentUserId, route, authMode>>
     ELSE IF exists(email)
     THEN /\ lastAlert' = "exists"
          /\ authMode' = "login"
          /\ UNCHANGED <<users, currentUserId, route>>
     ELSE /\ Len(users) < MaxUsers
          /\ users' = Append(users, newUser(email, password))
          /\ currentUserId' = Val(newUser(email, password).id)
          /\ route' = "profile"
          /\ lastAlert' = "none"
          /\ UNCHANGED authMode
  /\ UNCHANGED <<queries, sessions, notifications, levelVars, board>>

(* faulty variant: the isBlocked flag of the matched user is not looked at *)
handleLogin_blockedAllowed(email, password) ==
  LET hits == {i \in DOMAIN users : /\ users[i].email = email
                                     /\ users[i].password = password}
  IN /\ IF hits = {}
        THEN /\ lastAlert' = "invalid"
             /\ UNCHANGED <<currentUserId, route>>
        ELSE LET user == users[First(hits)]
             IN /\ currentUserId' = Val(user.id)
                /\ route' = IF user.year = null \/ Len(user.strongSubjects) = 0
                            THEN "profile" ELSE "home"
                /\ lastAlert' = "none"
     /\ UNCHANGED <<users, queries, sessions, notifications, authMode,
                    levelVars, board>>

handleLogin(email, password) ==
  LET hits == {i \in DOMAIN users : /\ users[i].email = email
                                     /\ users[i].password = password}
  IN /\ IF hits = {}
        THEN /\ lastAlert' = "invalid"
             /\ UNCHANGED <<currentUserId, route>>
        ELSE LET user == users[First(hits)]
             IN IF user.isBlocked
                THEN /\ lastAlert' = "blocked"
                     /\ UNCHANGED <<currentUserId, route>>
                ELSE /\ currentUserId' = Val(user.id)
                     /\ route' = IF user.year = null \/ Len(user.strongSubjects) = 0
                                 THEN "profile" ELSE "home"
                     /\ lastAlert' = "none"
     /\ UNCHANGED <<users, queries, sessions, notifications, authMode,
                    levelVars, board>>

handleLogout ==
  /\ currentUserId' = null
  /\ route' = "landing"
  /\ lastAlert' = "none"
  /\ UNCHANGED <<users, queries, sessions, notifications, authMode,
                 levelVars, board>>

updateProfile(updates) ==
  /\ IF ~isAuthed
     THEN UNCHANGED users
     ELSE users' = [i \in DOMAIN users |->
            IF users[i].id = currentUser.id
            THEN [k \in DOMAIN users[i] |->
                    IF k \in DOMAIN updates THEN updates[k] ELSE users[i][k]]
            ELSE users[i]]
  /\ lastAlert' = "none"
  /\ UNCHANGED <<queries, sessions, notifications, currentUserId, route,
                 authMode, levelVars, board>>

(* ---------------- query operations ---------------- *)
(* faulty variant: the new query is put at the end of the collection *)
createQuery_appended(data) ==
  /\ IF ~isAuthed
     THEN UNCHANGED queries
     ELSE /\ Len(queries) < MaxQueries
          /\ queries' = queries \o <<[id |-> Len(queries) + 1,
                                        preferredMode |-> data.preferredMode,
                                        status |-> "Open",
                                        askerId |-> currentUser.id]>>
  /\ lastAlert' = "none"
  /\ UNCHANGED <<users, sessions, notifications, currentUserId, route,
                 authMode, levelVars, board>>

createQuery(data) ==
  /\ IF ~isAuthed
     THEN UNCHANGED queries
     ELSE /\ Len(queries) < MaxQueries
          /\ queries' = <<[id |-> Len(queries) + 1,
                             preferredMode |-> data.preferredMode,
                             status |-> "Open",
                             askerId |-> currentUser.id]>> \o queries
  /\ lastAlert' = "none"
  /\ UNCHANGED <<users, sessions, notifications, currentUserId, route,
                 authMode, levelVars, board>>

(* faulty variant: the check compares the query's id with the user's id *)
isOwnQuery_wrongField(q) == q.id = currentUser.id

isOwnQuery(q) == q.askerId = currentUser.id

(* faulty variant: only a session that is still Confirmed counts as existing *)
existing_confirmedOnly(queryId) ==
  \E s \in Range(sessions) : s.queryId = queryId /\ s.status = "Confirmed"

existing(queryId) == \E s \in Range(sessions) : s.queryId = queryId

(* faulty variant: mentor and mentee are exchanged *)
newSession_swapped(q) ==
  [id |-> Len(sessions) + 1,
   queryId |-> q.id,
   mentorId |-> q.askerId,
   menteeId |-> currentUser.id,
   mode |-> IF q.preferredMode = "Offline" THEN "Offline" ELSE "Online",
   locationOrLink |-> IF q.preferredMode = "Offline" THEN "PCCOE Library"
                      ELSE "https://meet.google.com/example",
   status |-> "Confirmed",
   ratingForMentor |-> null,
   ratingForMentee |-> null]

(* faulty variant: the mode is the preference of the query as it is *)
newSession_modeCopied(q) ==
  [id |-> Len(sessions) + 1,
   queryId |-> q.id,
   mentorId |-> currentUser.id,
   menteeId |-> q.askerId,
   mode |-> q.preferredMode,
   locationOrLink |-> IF q.preferredMode = "Offline" THEN "PCCOE Library"
                      ELSE "https://meet.google.com/example",
   status |-> "Confirmed",
   ratingForMentor |-> null,
   ratingForMentee |-> null]

newSession(q) ==
  [id |-> Len(sessions) + 1,
   queryId |-> q.id,
   mentorId |-> currentUser.id,
   menteeId |-> q.askerId,
   mode |-> IF q.preferredMode = "Offline" THEN "Offline" ELSE "Online",
   locationOrLink |-> IF q.preferredMode = "Offline" THEN "PCCOE Library"
                      ELSE "https://meet.google.com/example",
   status |-> "Confirmed",
   ratingForMentor |-> null,
   ratingForMentee |-> null]

(* faulty variant: the query keeps its status *)
acceptedQueries_statusKept(queryId) == queries

acceptedQueries(queryId) ==
  [i \in DOMAIN queries |->
    IF queries[i].id = queryId
    THEN [queries[i] EXCEPT !.status = "In Progress"] ELSE queries[i]]

(* faulty variant: the notification is addressed to the mentor *)
acceptNotification_forMentor(q) ==
  [id |-> Len(notifications) + 1, userId |-> currentUser.id, read |-> FALSE]

acceptNotification(q) ==
  [id |-> Len(notifications) + 1, userId |-> q.askerId, read |-> FALSE]

acceptQuery(queryId) ==
  /\ IF ~isAuthed \/ ~(\E qq \in Range(queries) : qq.id = queryId)
     THEN /\ lastAlert' = "none"
          /\ UNCHANGED <<queries, sessions, notifications>>
     ELSE LET q == queries[First({i \in DOMAIN queries :
                                   queries[i].id = queryId})]
          IN IF isOwnQuery(q)
             THEN /\ lastAlert' = "own"
                  /\ UNCHANGED <<queries, sessions, notifications>>
             ELSE IF existing(queryId)
             THEN /\ lastAlert' = "already"
                  /\ UNCHANGED <<queries, sessions, notifications>>
             ELSE /\ sessions' = Append(sessions, newSession(q))
                  /\ queries' = acceptedQueries(queryId)
                  /\ notifications' = Append(notifications,
                                             acceptNotification(q))
                  /\ lastAlert' = "accepted"
  /\ UNCHANGED <<users, currentUserId, route, authMode, levelVars, board>>

(* ---------------- session operations ---------------- *)
(* faulty variant: a session that did not happen reopens its query *)
markSessionComplete_reopens(sessionId, didHappen) ==
  /\ sessions' = [i \in DOMAIN sessions |->
       IF sessions[i].id = sessionId
       THEN [sessions[i] EXCEPT
               !.status = IF didHappen THEN "Completed" ELSE "No-show"]
       ELSE sessions[i]]
  /\ queries' = [i \in DOMAIN queries |->
       IF /\ ~didHappen
          /\ \E s \in Range(sessions) :
               s.id = sessionId /\ s.queryId = queries[i].id
       THEN [queries[i] EXCEPT !.status = "Open"]
       ELSE queries[i]]
  /\ lastAlert' = "none"
  /\ UNCHANGED <<users, notifications, currentUserId, route,
                 authMode, levelVars, board>>

markSessionComplete(sessionId, didHappen) ==
  /\ sessions' = [i \in DOMAIN sessions |->
       IF sessions[i].id = sessionId
       THEN [sessions[i] EXCEPT
               !.status = IF didHappen THEN "Completed" ELSE "No-show"]
       ELSE sessions[i]]
  /\ lastAlert' = "none"
  /\ UNCHANGED <<users, queries, notifications, currentUserId, route,
                 authMode, levelVars, board>>

(* faulty variant: the two rating fields are exchanged *)
nextSessions_swapped(sessionId, ratingValue, forMentor) ==
  [i \in DOMAIN sessions |->
    IF sessions[i].id # sessionId THEN sessions[i]
    ELSE IF forMentor
         THEN [sessions[i] EXCEPT !.ratingForMentee = Val(ratingValue)]
         ELSE [sessions[i] EXCEPT !.ratingForMentor = Val(ratingValue)]]

(* faulty variant: an id that matches no session rates the first session *)
nextSessions_unknownRatesFirst(sessionId, ratingValue, forMentor) ==
  [i \in DOMAIN sessions |->
    IF /\ sessions[i].id # sessionId
       /\ ~(i = 1 /\ \A s \in Range(sessions) : s.id # sessionId)
    THEN sessions[i]
    ELSE IF forMentor
         THEN [sessions[i] EXCEPT !.ratingForMentor = Val(ratingValue)]
         ELSE [sessions[i] EXCEPT !.ratingForMentee = Val(ratingValue)]]

nextSessions(sessionId, ratingValue, forMentor) ==
  [i \in DOMAIN sessions |->
    IF sessions[i].id # sessionId THEN sessions[i]
    ELSE IF forMentor
         THEN [sessions[i] EXCEPT !.ratingForMentor = Val(ratingValue)]
         ELSE [sessions[i] EXCEPT !.ratingForMentee = Val(ratingValue)]]

rateSession(sessionId, ratingValue, forMentor) ==
  LET next == nextSessions(sessionId, ratingValue, forMentor)
  IN /\ sessions' = next
     /\ IF (\E s \in Range(sessions) : s.id = sessionId) /\ forMentor
        THEN users' = updateUserStats(users, next,
               sessions[First({i \in DOMAIN sessions :
                                 sessions[i].id = sessionId})].mentorId)
        ELSE UNCHANGED users
     /\ lastAlert' = "none"
     /\ UNCHANGED <<queries, notifications, currentUserId, route, authMode,
                    levelVars, board>>

(* ---------------- admin ---------------- *)
(* faulty variant: the Confirmed sessions of the user become No-show *)
toggleBlockUser_cancelsSessions(userId) ==
  /\ users' = [i \in DOMAIN users |->
       IF users[i].id = userId
       THEN [users[i] EXCEPT !.isBlocked = ~users[i].isBlocked]
       ELSE users[i]]
  /\ sessions' = [i \in DOMAIN sessions |->
       IF /\ sessions[i].status = "Confirmed"
          /\ userId \in {sessions[i].mentorId, sessions[i].menteeId}
       THEN [sessions[i] EXCEPT !.status = "No-show"]
       ELSE sessions[i]]
  /\ lastAlert' = "none"
  /\ UNCHANGED <<queries, notifications, currentUserId, route,
                 authMode, levelVars, board>>

toggleBlockUser(userId) ==
  /\ users' = [i \in DOMAIN users |->
       IF users[i].id = userId
       THEN [users[i] EXCEPT !.isBlocked = ~users[i].isBlocked]
       ELSE users[i]]
  /\ lastAlert' = "none"
  /\ UNCHANGED <<queries, sessions, notifications, currentUserId, route,
                 authMode, levelVars, board>>

(* ---------------- leaderboard ---------------- *)
completedSessions(ss, u) ==
  Len(SelectSeq(ss, LAMBDA s : s.mentorId = u.id /\ s.status = "Completed"))

(* the identifiers are numbers that stand for the strings in the order of
   String.prototype.localeCompare *)
localeCompare(x, y) == IF x < y THEN 0 - 1 ELSE IF x > y THEN 1 ELSE 0

(* faulty variant: users equal on xp, ratingAvg and sessions compare equal *)
compare_noIdTieBreak(ss, a, b) ==
  IF b.xp # a.xp THEN b.xp - a.xp
  ELSE IF b.ratingAvg # a.ratingAvg
  THEN b.ratingAvg.num * a.ratingAvg.den - a.ratingAvg.num * b.ratingAvg.den
  ELSE LET aSessions == completedSessions(ss, a)
           bSessions == completedSessions(ss, b)
       IN IF bSessions # aSessions THEN bSessions - aSessions
          ELSE 0

(* the comparator given to sort: negative when a goes before b.  Only the
   sign of the result is used; b.ratingAvg - a.ratingAvg has the sign of
   the cross product of the two fractions, whose denominators are positive *)
compare(ss, a, b) ==
  IF b.xp # a.xp THEN b.xp - a.xp
  ELSE IF b.ratingAvg # a.ratingAvg
  THEN b.ratingAvg.num * a.ratingAvg.den - a.ratingAvg.num * b.ratingAvg.den
  ELSE LET aSessions == completedSessions(ss, a)
           bSessions == completedSessions(ss, b)
       IN IF bSessions # aSessions THEN bSessions - aSessions
          ELSE localeCompare(a.id, b.id)

(* Array.prototype.sort is stable: an element goes before the first element
   it compares less than *)
RECURSIVE Insert(_, _, _)
Insert(ss, done, u) ==
  IF done = <<>> THEN <<u>>
  ELSE IF compare(ss, u, Head(done)) < 0 THEN <<u>> \o done
  ELSE <<Head(done)>> \o Insert(ss, Tail(done), u)

RECURSIVE sort(_, _)
sort(ss, us) ==
  IF us = <<>> THEN <<>>
  ELSE Insert(ss, sort(ss, SubSeq(us, 1, Len(us) - 1)), us[Len(us)])

leaderboard(us, ss) == sort(ss, us)

(* ---------------- arguments the handlers are called with ---------------- *)
QueryIdArgs == {q.id : q \in Range(queries)} \cup {Len(queries) + 1}
SessionIdArgs == {s.id : s \in Range(sessions)} \cup {Len(sessions) + 1}
UserIdArgs == {u.id : u \in Range(users)}
QueryData == {[preferredMode |-> m] : m \in PreferredModes}

(* one more handler call, while the call budget lasts; rated is the session
   identifier of a rateSession call and null for the other handlers *)
Step(rated) == calls > 0 /\ calls' = calls - 1 /\ lastRated' = rated

Signup ==
  Step(null) /\ \E e \in Emails, p \in SignupPasswords : handleSignup(e, p)

Login ==
  Step(null) /\ \E e \in Emails, p \in LoginPasswords : handleLogin(e, p)

Logout == Step(null) /\ handleLogout

UpdateProfile ==
  Step(null) /\ \E up \in ProfileUpdates : updateProfile(up)

CreateQuery ==
  Step(null) /\ \E d \in QueryData : createQuery(d)

AcceptQuery ==
  Step(null) /\ \E q \in QueryIdArgs : acceptQuery(q)

MarkSessionComplete ==
  Step(null) /\ \E s \in SessionIdArgs, b \in BOOLEAN :
                  markSessionComplete(s, b)

RateSession ==
  \E s \in SessionIdArgs, v \in RatingChoices, b \in BOOLEAN :
    Step(Val(s)) /\ rateSession(s, v, b)

ToggleBlockUser ==
  Step(null) /\ \E u \in UserIdArgs : toggleBlockUser(u)

Next ==
  \/ Signup
  \/ Login
  \/ Logout
  \/ UpdateProfile
  \/ CreateQuery
  \/ AcceptQuery
  \/ MarkSessionComplete
  \/ RateSession
  \/ ToggleBlockUser

Spec == Init /\ [][Next]_vars

SpecFresh == InitFresh /\ [][Next]_vars

(* ---------------- computeLevel applied to bounded inputs ---------------- *)
XpGains == {10 * v : v \in MinRating..MaxRating}

InitLevel ==
  /\ InitFrom(EmptyState, 0)
  /\ xpIn \in 0..MaxXpIn

LevelOfInput ==
  /\ levelOut = null
  /\ levelOut' = Val(computeLevel(xpIn))
  /\ UNCHANGED <<appVars, calls, lastRated, xpIn, board>>

LevelAfterGain ==
  /\ levelOut # null
  /\ \E d \in XpGains :
       /\ xpIn + d <= MaxXpIn
       /\ xpIn' = xpIn + d
       /\ levelOut' = Val(computeLevel(xpIn + d))
  /\ UNCHANGED <<appVars, calls, lastRated, board>>

NextLevel ==
  \/ LevelOfInput
  \/ LevelAfterGain

SpecLevel == InitLevel /\ [][NextLevel]_vars

(* ---------------- leaderboard applied to bounded inputs ---------------- *)
(* stored statistics of a user: none, one rating of 5, ratings 2 and 3 *)
BoardStats ==
  {[xp |-> 0, ratingAvg |-> Zero, ratingCount |-> 0],
   [xp |-> 50, ratingAvg |-> Quotient(5, 1), ratingCount |-> 1],
   [xp |-> 50, ratingAvg |-> Quotient(5, 2), ratingCount |-> 2]}

BoardUser(i, st) ==
  [StoredUser(i, IF i = 1 THEN "admin" ELSE "student")
     EXCEPT !.xp = st.xp, !.ratingAvg = st.ratingAvg,
            !.ratingCount = st.ratingCount]

Perms(n) ==
  {f \in [1..n -> 1..n] : \A i, j \in 1..n : i # j => f[i] # f[j]}

(* the users collection in every order of the identifiers *)
BoardUsers ==
  UNION {{[k \in 1..n |-> BoardUser(f[k], st[k])] :
            f \in Perms(n), st \in [1..n -> BoardStats]} : n \in 0..MaxUsers}

BoardSession(k, mentor, status) ==
  [StoredSession(k) EXCEPT !.mentorId = mentor,
                           !.menteeId = IF mentor = 1 THEN 2 ELSE 1,
                           !.status = status]

BoardSessions(n) ==
  IF n < 2 THEN {<<>>}
  ELSE UNION {{[k \in 1..len |-> BoardSession(k, m[k], st[k])] :
                 m \in [1..len -> 1..n],
                 st \in [1..len -> {"Completed", "Confirmed"}]} :
              len \in 0..MaxBoardSessions}

InitBoard ==
  /\ \E us \in BoardUsers :
       \E ss \in BoardSessions(Len(us)) :
         InitFrom([users |-> us, queries |-> <<>>, sessions |-> ss,
                   notifications |-> <<>>], 0)
  /\ xpIn = 0

ComputeLeaderboard ==
  /\ board = null
  /\ board' = Val(leaderboard(users, sessions))
  /\ UNCHANGED <<appVars, calls, lastRated, levelVars>>

NextBoard == ComputeLeaderboard

SpecBoard == InitBoard /\ [][NextBoard]_vars

(* ---------------- acceptQuery on every preferred mode ---------------- *)
(* the options of the Preferred mode select, and the value a query without
   the field compares as: a string that is none of the options *)
AllModes == {"Either", "Online", "Offline", "undefined"}

(* the stored snapshot before any query was accepted, its two queries
   holding any two preferred modes *)
OpenQuery(i, mode) ==
  [StoredQuery(i) EXCEPT !.preferredMode = mode, !.status = "Open"]

InitModes ==
  /\ \E m1, m2 \in AllModes :
       InitFrom([users |-> StoredState.users,
                 queries |-> <<OpenQuery(2, m2), OpenQuery(1, m1)>>,
                 sessions |-> <<>>, notifications |-> <<>>], MaxModeSteps)
  /\ xpIn = 0

SpecModes == InitModes /\ [][Next]_vars

(* ---------------- a mentor with several rated sessions ---------------- *)
(* The snapshot left after asha posted MaxRatedSessions + 1 queries and ben
   accepted each of them; every session was marked Completed, and all but
   the last were then rated 4 or 5 for the mentor. *)
StatRatings == {4, 5}

RatedSession(i, r) ==
  [StoredSession(i) EXCEPT !.status = "Completed", !.ratingForMentor = r]

RatedState(rs) ==
  LET n == Len(rs) + 1
      ss == [i \in 1..n |-> RatedSession(i, IF i < n THEN Val(rs[i])
                                            ELSE null)]
  IN [users |-> updateUserStats(StoredState.users, ss, 2),
      queries |-> [i \in 1..n |-> StoredQuery(n + 1 - i)],
      sessions |-> ss,
      notifications |-> [i \in 1..n |-> [id |-> i, userId |-> 1,
                                         read |-> FALSE]]]

InitStats ==
  /\ \E rs \in [1..MaxRatedSessions -> StatRatings] :
       InitFrom(RatedState(rs), MaxStatSteps)
  /\ xpIn = 0

NextStats ==
  \/ MarkSessionComplete
  \/ RateSession

SpecStats == InitStats /\ [][NextStats]_vars

(* ======================= properties ======================= *)
Idx(s) == 1..Len(s)

queryIds == {q.id : q \in Range(queries)}
sessionIds == {x.id : x \in Range(sessions)}

Referencing(ss, queryId) == {i \in Idx(ss) : ss[i].queryId = queryId}

(* the sessions that count towards the statistics of user uid *)
RatedCompleted(ss, uid) ==
  {i \in Idx(ss) : /\ ss[i].mentorId = uid
                   /\ ss[i].status = "Completed"
                   /\ ss[i].ratingForMentor # null}

RECURSIVE RatingTotal(_, _)
RatingTotal(ss, I) ==
  IF I = {} THEN 0
  ELSE LET i == CHOOSE j \in I : TRUE
       IN ss[i].ratingForMentor[1] + RatingTotal(ss, I \ {i})

UserWithId(us, uid) == us[CHOOSE k \in Idx(us) : us[k].id = uid]

(* C1: no two Sessions of the session collection have the same queryId. *)
C1_OneSessionPerQuery ==
  \A i, j \in Idx(sessions) :
    i # j => sessions[i].queryId # sessions[j].queryId

(* two queries have been accepted: the collections are those of the stored
   snapshot, reached here from the empty state *)
C1_Witness ==
  /\ lastAlert = "accepted"
  /\ [users |-> users, queries |-> queries, sessions |-> sessions,
      notifications |-> notifications] = StoredState

(* C2: a Query is In Progress exactly when some Session references it; an
   accepted Query is never seen without its Session, nor a Session whose
   Query is still Open. *)
C2_InProgressIffSession ==
  /\ \A q \in Range(queries) :
       q.status = "In Progress" <=> Referencing(sessions, q.id) # {}
  /\ \A x \in Range(sessions) :
       \A q \in Range(queries) : q.id = x.queryId => q.status # "Open"

C2_Witness ==
  /\ lastAlert = "accepted"
  /\ \E q \in Range(queries) : q.status = "Open"
  /\ \E q \in Range(queries) : q.status = "In Progress"

(* C3: once a Session references q, acceptQuery(q) by a user who is not the
   asker is rejected with the already-has-a-mentor alert and changes none of
   users, queries, sessions, notifications. *)
C3_SecondAcceptRejected ==
  [][\A q \in queryIds :
       (/\ isAuthed
        /\ Referencing(sessions, q) # {}
        /\ \A r \in Range(queries) : r.id = q => r.askerId # currentUser.id
        /\ acceptQuery(q))
       => /\ lastAlert' = "already"
          /\ UNCHANGED <<users, queries, sessions, notifications>>]_vars

(* a third user, who is neither the asker nor the mentor, was rejected *)
C3_Witness ==
  /\ lastAlert = "already"
  /\ isAuthed
  /\ \A x \in Range(sessions) :
       x.mentorId # currentUser.id /\ x.menteeId # currentUser.id

(* C4: acceptQuery(q) by the asker of q fails with the own-query alert in
   every state of q and creates no Session, no Notification and no change of
   any Query. *)
C4_SelfAcceptRejected ==
  [][\A q \in queryIds :
       (/\ isAuthed
        /\ \E r \in Range(queries) : r.id = q /\ r.askerId = currentUser.id
        /\ acceptQuery(q))
       => /\ lastAlert' = "own"
          /\ UNCHANGED <<users, queries, sessions, notifications>>]_vars

(* the asker was rejected on a query that already is In Progress *)
C4_Witness ==
  /\ lastAlert = "own"
  /\ isAuthed
  /\ \A q \in Range(queries) :
       q.askerId = currentUser.id /\ q.status = "In Progress"
  /\ queries # <<>>

(* C5: acceptQuery(q) by A on an Open query of B that no Session references
   appends one Session (queryId q, mentor A, mentee B, Confirmed, no
   ratings), sets q In Progress, appends one unread Notification for B and
   leaves every other query, session, notification and all users as they
   were. *)
C5_AcceptCreatesSession ==
  [][\A q \in queryIds :
       (/\ isAuthed
        /\ Referencing(sessions, q) = {}
        /\ \E r \in Range(queries) :
             r.id = q /\ r.status = "Open" /\ r.askerId # currentUser.id
        /\ acceptQuery(q))
       => LET asker == (CHOOSE r \in Range(queries) : r.id = q).askerId
              n == Len(sessions) + 1
              m == Len(notifications) + 1
          IN /\ Len(sessions') = n
             /\ SubSeq(sessions', 1, n - 1) = sessions
             /\ sessions'[n].queryId = q
             /\ sessions'[n].mentorId = currentUser.id
             /\ sessions'[n].menteeId = asker
             /\ sessions'[n].status = "Confirmed"
             /\ sessions'[n].ratingForMentor = null
             /\ sessions'[n].ratingForMentee = null
             /\ Len(queries') = Len(queries)
             /\ \A i \in Idx(queries) :
                  queries'[i] = IF queries[i].id = q
                                THEN [queries[i] EXCEPT !.status = "In Progress"]
                                ELSE queries[i]
             /\ Len(notifications') = m
             /\ SubSeq(notifications', 1, m - 1) = notifications
             /\ notifications'[m].userId = asker
             /\ notifications'[m].read = FALSE
             /\ users' = users]_vars

(* a query was accepted while another session and another query existed *)
C5_Witness ==
  /\ lastAlert = "accepted"
  /\ isAuthed
  /\ Len(sessions) = 2
  /\ Len(notifications) = 2
  /\ sessions[2].mentorId = currentUser.id
  /\ sessions[2].menteeId # currentUser.id
  /\ \A q \in Range(queries) : q.status = "In Progress"

(* C6: each user's stored xp is 10 times the sum of ratingForMentor over the
   Completed, rated Sessions the user mentored, and the stored ratingCount
   is the number of those Sessions. *)
C6_StatsNeverDrift ==
  \A u \in Range(users) :
    /\ u.xp = 10 * RatingTotal(sessions, RatedCompleted(sessions, u.id))
    /\ u.ratingCount = Cardinality(RatedCompleted(sessions, u.id))

(* C7: rateSession(s, v, TRUE) on an existing Completed session leaves the
   mentor with the statistics of the session collection that holds v; with
   no rated session before and v = 5 that is xp 50, ratingCount 1,
   ratingAvg 5, level 1; and when the field was unset the mentor's xp grows
   by 10 * v. *)
C7_Recomputed(x, v) ==
  LET mentor == UserWithId(users', x.mentorId)
      rated == RatedCompleted(sessions', x.mentorId)
      total == RatingTotal(sessions', rated)
  IN /\ \E y \in Range(sessions') : y.id = x.id /\ y.ratingForMentor = Val(v)
     /\ mentor.xp = 10 * total
     /\ mentor.ratingCount = Cardinality(rated)
     /\ mentor.ratingAvg.num * mentor.ratingCount = total * mentor.ratingAvg.den
     /\ mentor.level = computeLevel(mentor.xp)

C7_FirstFive(x, v) ==
  (RatedCompleted(sessions, x.mentorId) = {} /\ v = MaxRating)
  => LET mentor == UserWithId(users', x.mentorId)
     IN /\ mentor.xp = 50
        /\ mentor.ratingCount = 1
        /\ mentor.ratingAvg = [num |-> 5, den |-> 1]
        /\ mentor.level = 1

C7_Grows(x, v) ==
  x.ratingForMentor = null
  => UserWithId(users', x.mentorId).xp
       = UserWithId(users, x.mentorId).xp + 10 * v

C7_RateMentorRecomputes ==
  [][\A x \in Range(sessions), v \in RatingChoices :
       (x.status = "Completed" /\ rateSession(x.id, v, TRUE))
       => C7_Recomputed(x, v) /\ C7_FirstFive(x, v) /\ C7_Grows(x, v)]_vars

(* the two parts of C7 that do not depend on the statistics stored before *)
C7_RecomputedFromNewCollection ==
  [][\A x \in Range(sessions), v \in RatingChoices :
       (x.status = "Completed" /\ rateSession(x.id, v, TRUE))
       => C7_Recomputed(x, v) /\ C7_FirstFive(x, v)]_vars

(* C8: rateSession(s, v, FALSE) changes the ratingForMentee field of session
   s and nothing else: users, queries, notifications, the other fields of s
   and the other sessions keep their values. *)
C8_RateMenteeFrame ==
  [][\A sid \in sessionIds, v \in RatingChoices :
       rateSession(sid, v, FALSE)
       => /\ UNCHANGED <<users, queries, notifications>>
          /\ Len(sessions') = Len(sessions)
          /\ \A i \in Idx(sessions) :
               sessions'[i] = IF sessions[i].id = sid
                              THEN [sessions[i] EXCEPT !.ratingForMentee = Val(v)]
                              ELSE sessions[i]]_vars

(* the mentee of a rated, Completed session was rated while the mentor's
   statistics were non-zero *)
C8_Witness ==
  \E x \in Range(sessions) :
    /\ x.ratingForMentee # null
    /\ x.ratingForMentor # null
    /\ UserWithId(users, x.mentorId).xp > 0

(* C9: computeLevel(xp) is in 1..5, is non-decreasing in xp, and maps 0..99
   to 1, 100..299 to 2, 300..699 to 3, 700..1499 to 4, 1500 and above to 5. *)
LevelTable(xp) ==
  IF xp <= 99 THEN 1
  ELSE IF xp <= 299 THEN 2
  ELSE IF xp <= 699 THEN 3
  ELSE IF xp <= 1499 THEN 4
  ELSE 5

C9_LevelOfXp ==
  levelOut # null
  => /\ levelOut[1] \in 1..5
     /\ levelOut[1] = LevelTable(xpIn)
     /\ \A y \in 0..xpIn : computeLevel(y) <= levelOut[1]

C9_Witness == xpIn = 1500 /\ levelOut = Val(5)

(* C10: a Session is created Confirmed, and a status of Completed or No-show
   is never changed by a later operation. *)
C10_StatusSetOnce ==
  [][/\ Len(sessions') >= Len(sessions)
     /\ \A i \in Idx(sessions') :
          IF i > Len(sessions)
          THEN sessions'[i].status = "Confirmed"
          ELSE sessions[i].status \in {"Completed", "No-show"}
               => sessions'[i].status = sessions[i].status]_vars

(* C11: once ratingForMentor (respectively ratingForMentee) of a Session
   holds a value, no later step changes the value of that field. *)
C11_RatingSetOnce ==
  [][\A i \in Idx(sessions) :
       /\ sessions[i].ratingForMentor # null
            => sessions'[i].ratingForMentor = sessions[i].ratingForMentor
       /\ sessions[i].ratingForMentee # null
            => sessions'[i].ratingForMentee = sessions[i].ratingForMentee]_vars

(* C12: every Session whose ratingForMentor or ratingForMentee is set has
   status Completed. *)
C12_RatedOnlyWhenCompleted ==
  \A x \in Range(sessions) :
    (x.ratingForMentor # null \/ x.ratingForMentee # null)
    => x.status = "Completed"

(* C13: the stored xp of a user never decreases from one state to the
   next. *)
C13_XpNeverDecreases ==
  [][\A i \in Idx(users) : users'[i].xp >= users[i].xp]_vars

(* C14: whenever there is a user, the first user created has role admin and
   every other user has role student; no step removes a user or changes the
   role of an existing user. *)
C14_RolesFixed ==
  /\ [](users # <<>>
        => /\ users[1].role = "admin"
           /\ \A i \in 2..Len(users) : users[i].role = "student")
  /\ [][/\ Len(users') >= Len(users)
        /\ \A i \in Idx(users) :
             /\ users'[i].id = users[i].id
             /\ users'[i].role = users[i].role]_vars

(* a third account was created after the two stored ones, a profile was
   saved, a user was blocked and a rating triggered a recomputation *)
C14_Witness ==
  /\ Len(users) = 3
  /\ \E u \in Range(users) : u.name = "N"
  /\ \E u \in Range(users) : u.isBlocked
  /\ \E x \in Range(sessions) : x.ratingForMentor # null

(* C15: handleSignup with an email that a user already holds leaves the
   users collection and the active identity as they were, and no two users
   ever hold the same email. *)
C15_DuplicateSignupRejected ==
  /\ [](\A i, j \in Idx(users) : i # j => users[i].email # users[j].email)
  /\ [][\A e \in Emails, p \in SignupPasswords :
          ((\E u \in Range(users) : u.email = e) /\ handleSignup(e, p))
          => UNCHANGED <<users, currentUserId>>]_vars

(* a signed-in user tried to sign up again with an email already held *)
C15_Witness ==
  /\ lastAlert = "exists"
  /\ isAuthed
  /\ Len(users) >= 2

(* C16: handleLogin(e, p) fails with the active identity and the route
   unchanged when no user matches both e and p, and when the matching user
   is blocked; otherwise the matching user, who is not blocked, becomes the
   active identity. *)
C16_LoginRejectsBlocked ==
  [][\A e \in Emails, p \in LoginPasswords :
       (lastRated' = null /\ handleLogin(e, p))
       => LET hits == {i \in Idx(users) : /\ users[i].email = e
                                          /\ users[i].password = p}
          IN IF hits = {}
             THEN /\ lastAlert' = "invalid"
                  /\ UNCHANGED <<currentUserId, route>>
             ELSE IF \E i \in hits : users[i].isBlocked
             THEN /\ lastAlert' = "blocked"
                  /\ UNCHANGED <<currentUserId, route>>
             ELSE /\ lastAlert' = "none"
                  /\ \E i \in hits :
                       /\ ~users[i].isBlocked
                       /\ currentUserId' = Val(users[i].id)
                       /\ isAuthed']_vars

(* a blocked user tried to log in while another user was signed in *)
C16_Witness ==
  /\ lastAlert = "blocked"
  /\ isAuthed
  /\ ~currentUser.isBlocked

(* C17: the leaderboard holds every user exactly once, and of two users the
   one placed first has the higher stored xp, or equal xp and the higher
   stored ratingAvg, or both equal and more Completed Sessions as mentor, or
   all three equal and the smaller id; the result is the one the same users
   give in ascending and in descending order of id, whatever the order of
   the users collection is. *)
Reversed(s) == [k \in Idx(s) |-> s[Len(s) + 1 - k]]

(* the users of us in ascending order of id *)
RECURSIVE InIdOrder(_)
InIdOrder(us) ==
  IF us = <<>> THEN <<>>
  ELSE LET k == CHOOSE i \in Idx(us) : \A j \in Idx(us) : us[i].id <= us[j].id
           rest == SubSeq(us, 1, k - 1) \o SubSeq(us, k + 1, Len(us))
       IN <<us[k]>> \o InIdOrder(rest)

CompletedAsMentor(u) ==
  Cardinality({i \in Idx(sessions) : /\ sessions[i].mentorId = u.id
                                     /\ sessions[i].status = "Completed"})

AvgAbove(a, b) ==
  a.ratingAvg.num * b.ratingAvg.den > b.ratingAvg.num * a.ratingAvg.den

GoesBefore(a, b) ==
  \/ a.xp > b.xp
  \/ /\ a.xp = b.xp
     /\ \/ AvgAbove(a, b)
        \/ /\ ~AvgAbove(b, a)
           /\ \/ CompletedAsMentor(a) > CompletedAsMentor(b)
              \/ /\ CompletedAsMentor(a) = CompletedAsMentor(b)
                 /\ a.id < b.id

C17_LeaderboardOrder ==
  board # null
  => LET b == board[1]
     IN /\ Len(b) = Len(users)
        /\ \A u \in Range(users) : Cardinality({i \in Idx(b) : b[i] = u}) = 1
        /\ \A i, j \in Idx(b) : i < j => GoesBefore(b[i], b[j])
        /\ leaderboard(InIdOrder(users), sessions) = b
        /\ leaderboard(Reversed(InIdOrder(users)), sessions) = b

(* three users with the same xp and ratingAvg, two of them with the same
   number of Completed sessions, were put in another order than the users
   collection holds them *)
C17_Witness ==
  /\ board # null
  /\ Len(users) = 3
  /\ board[1] # users
  /\ \A u, w \in Range(users) : u.xp = w.xp /\ u.ratingAvg = w.ratingAvg
  /\ \E u, w \in Range(users) :
       CompletedAsMentor(u) > CompletedAsMentor(w)
  /\ \E u, w \in Range(users) :
       u.id # w.id /\ CompletedAsMentor(u) = CompletedAsMentor(w)
  /\ users[1].id > users[2].id

(* C18: on the same session collection, updateUserStats applied twice gives
   the users that one application gives, for the id of every user and for
   an id no user has. *)
C18_RecomputeIdempotent ==
  \A uid \in UserIdArgs \cup {Len(users) + 1} :
    LET once == updateUserStats(users, sessions, uid)
    IN updateUserStats(once, sessions, uid) = once

(* a rating of a Completed session was just recomputed into a non-zero xp *)
C18_Witness ==
  /\ lastRated # null
  /\ \E x \in Range(sessions) :
       /\ x.id = lastRated[1]
       /\ x.status = "Completed"
       /\ x.ratingForMentor # null
       /\ UserWithId(users, x.mentorId).xp > 0

(* C19: rateSession with a sessionId that no Session has leaves users,
   queries, sessions and notifications unchanged, for either value of
   forMentor (lastRated' is not null exactly in the steps that call
   rateSession). *)
C19_RateUnknownNoOp ==
  [][lastRated' # null
     => \A sid \in SessionIdArgs \ sessionIds, v \in RatingChoices,
           b \in BOOLEAN :
          rateSession(sid, v, b)
          => UNCHANGED <<users, queries, sessions, notifications>>]_vars

(* rateSession was called with an unknown id while some mentor's stored
   statistics were not those a recomputation would give *)
C19_Witness ==
  /\ lastRated # null
  /\ lastRated[1] \notin sessionIds
  /\ sessions # <<>>
  /\ \E u \in Range(users) : updateUserStats(users, sessions, u.id) # users

(* C20: toggleBlockUser(u) negates the isBlocked flag of user u and changes
   nothing else: queries, sessions and notifications, the other users and
   the other fields of u keep their values. *)
C20_ToggleBlockFrame ==
  [][\A uid \in UserIdArgs :
       toggleBlockUser(uid)
       => /\ UNCHANGED <<queries, sessions, notifications>>
          /\ Len(users') = Len(users)
          /\ \A i \in Idx(users) :
               users'[i] = IF users[i].id = uid
                           THEN [users[i] EXCEPT
                                   !.isBlocked = ~users[i].isBlocked]
                           ELSE users[i]]_vars

(* a mentor with a Confirmed session and non-zero xp is blocked *)
C20_Witness ==
  \E u \in Range(users) :
    /\ u.isBlocked
    /\ u.xp > 0
    /\ \E x \in Range(sessions) :
         x.mentorId = u.id /\ x.status = "Confirmed"

(* C21: createQuery by a signed-in user puts exactly one new Query, Open and
   asked by the active user, in front of the queries that were there; every
   other step keeps the queries in their places; so the collection always
   holds the queries from the one created last to the one created first
   (the ids of the model count the creations). *)
C21_NewestFirst ==
  /\ [](\A i, j \in Idx(queries) : i < j => queries[i].id > queries[j].id)
  /\ [][/\ \A d \in QueryData :
             (isAuthed /\ createQuery(d))
             => /\ Len(queries') = Len(queries) + 1
                /\ Tail(queries') = queries
                /\ Head(queries').status = "Open"
                /\ Head(queries').askerId = currentUser.id
                /\ Head(queries').id \notin queryIds
        /\ Len(queries') = Len(queries)
             => \A i \in Idx(queries) : queries'[i].id = queries[i].id
        /\ Len(queries') \in {Len(queries), Len(queries) + 1}]_vars

(* a query was created after an older one had been accepted *)
C21_Witness ==
  /\ Len(queries) >= 2
  /\ queries[1].status = "Open"
  /\ queries[2].status = "In Progress"
  /\ queries[1].askerId # queries[2].askerId

(* C22: a Session has mode Offline and the location PCCOE Library exactly
   when the preferredMode of its Query is Offline, and mode Online with the
   meeting link for every other preferredMode; no step changes the mode or
   the locationOrLink of a Session. *)
C22_ModeFromPreference ==
  /\ [](\A x \in Range(sessions), q \in Range(queries) :
          q.id = x.queryId
          => IF q.preferredMode = "Offline"
             THEN x.mode = "Offline" /\ x.locationOrLink = "PCCOE Library"
             ELSE /\ x.mode = "Online"
                  /\ x.locationOrLink = "https://meet.google.com/example")
  /\ [][\A i \in Idx(sessions) :
          /\ sessions'[i].mode = sessions[i].mode
          /\ sessions'[i].locationOrLink = sessions[i].locationOrLink]_vars

(* an Offline query and a query without preferred mode were accepted, and
   one of the sessions was marked afterwards *)
C22_Witness ==
  /\ \E x \in Range(sessions), q \in Range(queries) :
       q.id = x.queryId /\ q.preferredMode = "Offline" /\ x.mode = "Offline"
  /\ \E x \in Range(sessions), q \in Range(queries) :
       /\ q.id = x.queryId
       /\ q.preferredMode = "undefined"
       /\ x.mode = "Online"
       /\ x.status # "Confirmed"

(* C23: every Session has a mentor different from its mentee, its mentee is
   the asker of the Query it references, and its queryId, mentorId and
   menteeId are the ids of a Query and of Users of the collections. *)
C23_SessionReferences ==
  \A x \in Range(sessions) :
    /\ x.mentorId # x.menteeId
    /\ \E q \in Range(queries) : q.id = x.queryId /\ q.askerId = x.menteeId
    /\ \A q \in Range(queries) : q.id = x.queryId => q.askerId = x.menteeId
    /\ \E u \in Range(users) : u.id = x.mentorId
    /\ \E u \in Range(users) : u.id = x.menteeId

(* the first user has just accepted a query of a user who signed up later *)
C23_Witness ==
  /\ lastAlert = "accepted"
  /\ \E x \in Range(sessions) :
       /\ x.mentorId = users[1].id
       /\ x.menteeId # users[1].id
       /\ currentUserId = Val(x.mentorId)

(* C24: in every step each Query of the collection stays in it, with the
   status it had or, when that was Open, with status In Progress; an In
   Progress Query is never Open again. *)
C24_QueryStatusOnce ==
  [][\A q \in Range(queries) :
       \E r \in Range(queries') :
         /\ r.id = q.id
         /\ r.status \in {q.status, "In Progress"}]_vars

(* the session of an In Progress query was marked as not having happened *)
C24_Witness ==
  \E x \in Range(sessions), q \in Range(queries) :
    /\ q.id = x.queryId
    /\ x.status = "No-show"
    /\ q.status = "In Progress"

(* C25: there are as many Notifications as Sessions, the userId of each
   Notification is the askerId of an In Progress Query, and a step either
   leaves the notifications as they are or is a successful acceptQuery that
   adds one Notification after them. *)
C25_NotificationPerSession ==
  /\ [](/\ Len(notifications) = Len(sessions)
        /\ \A n \in Range(notifications) :
             \E q \in Range(queries) :
               q.askerId = n.userId /\ q.status = "In Progress")
  /\ [][\/ notifications' = notifications
        \/ /\ lastAlert' = "accepted"
           /\ Len(sessions') = Len(sessions) + 1
           /\ Len(notifications') = Len(notifications) + 1
           /\ SubSeq(notifications', 1, Len(notifications)) = notifications
       ]_vars

(* two notifications exist; afterwards a session was rated and marked and a
   user was blocked *)
C25_Witness ==
  /\ Len(notifications) = 2
  /\ \E x \in Range(sessions) :
       x.status # "Confirmed" /\ x.ratingForMentee # null
  /\ \E u \in Range(users) : u.isBlocked
  /\ \A n \in Range(notifications) : ~n.read

(* C26: the stored level of every user is computeLevel of that user's stored
   xp. *)
C26_LevelOfStoredXp ==
  \A u \in Range(users) : u.level = computeLevel(u.xp)

(* a mentor whose recomputed xp has crossed the first threshold *)
C26_Witness ==
  \E u \in Range(users) : u.xp >= 100 /\ u.level = 2 /\ u.ratingCount = 2

(* C27: when currentUserId names a user, that user is not blocked. *)
C27_ActiveNeverBlocked ==
  isAuthed => ~currentUser.isBlocked

(* C28: the stored statistics of a user agree with each other.  The product
   is evaluated as the program's arithmetic evaluates
   10 * ratingAvg * ratingCount, on the number that ratingAvg stores. *)
(* the number d times the integer k, 0 <= k <= 15 *)
Times(d, k) ==
  IF d = NumberZero \/ k = 0 THEN NumberZero
  ELSE LET low == (d.lo * k) % LoUnit
           high == d.hi * k + (d.lo * k) \div LoUnit
           x == BitLength(high) - 26
           s == 2^x
           dropped == low % s
       IN Round(high \div s,
                (high % s) * (LoUnit \div s) + low \div s,
                d.e + x,
                x > 0 /\ 2 * dropped >= s,
                x > 0 /\ (2 * dropped) % s # 0)

(* the number of the integer n, 0 <= n < HiUnit *)
Number(n) ==
  IF n = 0 THEN NumberZero
  ELSE [hi |-> n * 2^(26 - BitLength(n)), lo |-> 0, e |-> BitLength(n) - 1]

StoredAvg(u) == Divide(u.ratingAvg.num, u.ratingAvg.den)

AvgInRange(u) ==
  /\ u.ratingCount = 0 => u.ratingAvg = Zero
  /\ u.ratingCount > 0
       => /\ MinRating * u.ratingAvg.den <= u.ratingAvg.num
          /\ u.ratingAvg.num <= MaxRating * u.ratingAvg.den

(* C28 as stated: xp is the product 10 * ratingAvg * ratingCount of the
   stored numbers, ratingAvg is 0 without ratings and between 1 and 5 with
   them. *)
C28_StatsProduct ==
  \A u \in Range(users) :
    /\ Times(Times(StoredAvg(u), 10), u.ratingCount) = Number(u.xp)
    /\ AvgInRange(u)

(* C28, amended: ratingAvg is the number nearest to xp / (10 * ratingCount),
   0 without ratings (then xp is 0 too) and between 1 and 5 with them. *)
C28_StatsConsistent ==
  \A u \in Range(users) :
    /\ u.ratingCount > 0 => u.ratingAvg = Quotient(u.xp, 10 * u.ratingCount)
    /\ u.ratingCount = 0 => u.xp = 0
    /\ AvgInRange(u)

(* the statistics of a mentor are stale, and the product of the stored
   numbers is not the stored xp *)
C28_Witness ==
  \E u \in Range(users) :
    /\ u.ratingCount > MaxRatedSessions
    /\ updateUserStats(users, sessions, u.id) # users
    /\ Times(Times(StoredAvg(u), 10), u.ratingCount) # Number(u.xp)

(* C29: a user with stored xp or ratingCount above 0 is the mentor of a
   session whose ratingForMentor is set; a user who is the mentor of no such
   session has xp 0, ratingCount 0, ratingAvg 0 and level 1. *)
RatedAsMentor(u) ==
  \E x \in Range(sessions) : x.mentorId = u.id /\ x.ratingForMentor # null

C29_XpOnlyByMentoring ==
  \A u \in Range(users) :
    /\ (u.xp > 0 \/ u.ratingCount > 0) => RatedAsMentor(u)
    /\ ~RatedAsMentor(u)
         => /\ u.xp = 0
            /\ u.ratingCount = 0
            /\ u.ratingAvg = Zero
            /\ u.level = 1

(* a mentee who was rated has no statistics, while the mentor of the same
   session has *)
C29_Witness ==
  \E x \in Range(sessions), a, b \in Range(users) :
    /\ x.menteeId = a.id /\ x.mentorId = b.id
    /\ x.ratingForMentee = Val(MaxRating)
    /\ a.xp = 0 /\ a.ratingCount = 0 /\ ~RatedAsMentor(a)
    /\ b.xp > 0

====
